---- MODULE Spec2Model ----
(***************************************************************************)
(* Model of the CoursesSystem backend: the question lifecycle              *)
(* (question_service.py), the AI write path, the clustering                *)
(* reconciliation workflow and manual cluster management                   *)
(* (api/ai_integration.py), course deletion (course_service.py), the       *)
(* maintenance scripts and the LINE webhook (api/line_integration.py).     *)
(*                                                                         *)
(* Every handler is a coroutine on one event loop: it can be suspended at  *)
(* each awaited database call, so a handler with several awaited calls is  *)
(* modelled as one action per awaited call, with the handler's local       *)
(* variables kept in an in-flight record between the calls.                *)
(***************************************************************************)
EXTENDS Integers, Sequences, FiniteSets, TLC

\* ------------------------------------------------------------------------
\* Bounds of the model
\* ------------------------------------------------------------------------
MaxQuestions == 1        \* questions the store may hold in Spec
MaxInflight == 1         \* handlers of one kind suspended at the same time
MaxAIQuestions == 1      \* questions create_question may insert in SpecAI
MaxClusterQuestions == 3 \* questions create_question may insert in SpecCluster
MaxRuns == 1             \* clustering tasks in flight at once
MaxOids == 2             \* no new run or manual creation once this many ObjectIds are out
MaxPendingQuestions == 2 \* questions create_question may insert in SpecPending
MaxFrameQuestions == 1   \* questions create_question may insert in SpecFrame
MaxLineMessages == 3     \* no webhook request is taken once line_messages holds this many
SeedQuestions == 1       \* questions one run of create_test_data.py inserts (50 in the script)

\* ------------------------------------------------------------------------
\* Values of the program
\* ------------------------------------------------------------------------
None == "None"           \* Python None in a string-valued field
NoScore == -1            \* Python None in difficulty_score
NoCluster == 0           \* Python None in cluster_id; ObjectIds are 1, 2, ...

\* scores are kept in tenths: 0.3 is 3, 0.7 is 7
EasyBelow == 3
MediumBelow == 7
DefaultScore == 5

QuestionStatus == {"PENDING", "APPROVED", "REJECTED", "DELETED", "WITHDRAWN"}
CourseIds == {"c1", "c2"}
ResetCourse == "c1"
UnknownCourse == "cX"
LineUsers == {"U1", "U2"}
Texts == {"t1"}
Reasons == {None, "off-topic"}
SeedCourse == "seed"
SeedClusters == 5
AIScores == {0, 3, 7}
AIKeywords == {<<>>, <<"kw">>}
AbsentKeywords == <<None>>
Labels == {"loops", "recursion", "debugging", "syntax"}
TopicCeiling == 2
ClusteringLimit == 50
NoTarget == 0
NoDocument == "absent"   \* find_one on line_users returns None

generate_pseudonym(line_user_id) ==
    CASE line_user_id = "U1" -> "5e1f"
      [] line_user_id = "U2" -> "c07a"
      [] OTHER -> "9b3d"

allowed_transitions ==
    [PENDING |-> {"APPROVED", "REJECTED", "DELETED", "WITHDRAWN"},
     APPROVED |-> {"DELETED"},
     REJECTED |-> {"DELETED"},
     WITHDRAWN |-> {"DELETED"}]

\* transition_check without the guard on statuses that have no table row
transition_check_no_row_guard(current_status, new_status) ==
    IF new_status = "DELETED" THEN "ok"
    ELSE IF current_status \notin DOMAIN allowed_transitions THEN "ok"
    ELSE IF new_status \notin allowed_transitions[current_status] THEN "IllegalTransition"
    ELSE "ok"

\* transition_check without the DELETED escape hatch
transition_check_no_escape(current_status, new_status) ==
    IF current_status \notin DOMAIN allowed_transitions THEN "IllegalTransition"
    ELSE IF new_status \notin allowed_transitions[current_status] THEN "IllegalTransition"
    ELSE "ok"

\* the three-way test of update_question_status; the result is the error
\* raised, or "ok" when the handler goes on to write
transition_check(current_status, new_status) ==
    IF new_status = "DELETED" THEN "ok"
    ELSE IF current_status \notin DOMAIN allowed_transitions THEN "IllegalTransition"
    ELSE IF new_status \notin allowed_transitions[current_status] THEN "IllegalTransition"
    ELSE "ok"

difficulty_level_of(score) ==
    IF score = NoScore THEN None
    ELSE IF score < EasyBelow THEN "easy"
    ELSE IF score < MediumBelow THEN "medium"
    ELSE "hard"

VARIABLES
    courses,         \* courses collection: course id -> [is_active]
    questions,       \* questions collection, in insertion order; _id is the index
    clusters,        \* clusters collection: ObjectId -> document
    next_oid,        \* ObjectIds handed out so far for clusters
    inserts,         \* create_question calls between the course check and insert_one
    status_writes,   \* update_question_status calls between the check and update_one
    course_deletes,  \* delete_course calls between update_course and the cascade
    reset_pc,        \* position of the reset_clusters.py script
    ai_tasks,        \* scheduled process_new_question_ai background tasks
    drafts,          \* scheduled _generate_and_save_draft background tasks
    runs,            \* scheduled or running _run_clustering_task background tasks
    cluster_deletes, \* delete_cluster calls between update_many and delete_one
    manual_creates,  \* create_manual_cluster calls between find_one and insert_one
    line_messages,   \* line_messages collection
    settings,        \* the LINE and AI part of config.Settings, fixed at start-up
    webhook_request, \* body and X-Line-Signature of the webhook request handled last
    line_users,      \* line_users collection: user id -> current_course_id
    line_handlers,   \* LineService.handle_text_message calls between two awaits
    last             \* the handler step taken last, and its outcome

cluster_side == <<clusters, next_oid, runs, cluster_deletes, manual_creates>>
chat_side == <<line_users, line_handlers>>
line_side == <<line_messages, settings, webhook_request, chat_side>>
vars == <<courses, questions, inserts, status_writes, course_deletes, reset_pc,
          ai_tasks, drafts, cluster_side, line_side, last>>

QIds == 1..Len(questions)

Step(op, qid, arg, res) == [op |-> op, qid |-> qid, arg |-> arg, res |-> res]

\* the state after the application has started on an empty database that
\* holds the two courses
InitStore ==
    /\ courses = [c \in CourseIds |-> [is_active |-> TRUE]]
    /\ questions = <<>>
    /\ clusters = [c \in {} |-> None]
    /\ next_oid = 0
    /\ inserts = {}
    /\ status_writes = {}
    /\ course_deletes = {}
    /\ reset_pc = "idle"
    /\ ai_tasks = {}
    /\ drafts = {}
    /\ runs = {}
    /\ cluster_deletes = {}
    /\ manual_creates = {}
    /\ line_messages = <<>>
    /\ webhook_request = [body |-> "", x_line_signature |-> None]
    /\ line_users = [u \in LineUsers |-> NoDocument]
    /\ line_handlers = {}
    /\ last = Step("init", 0, None, "ok")

\* config.py leaves both LINE settings empty unless the environment sets them
Init ==
    /\ InitStore
    /\ settings = [LINE_CHANNEL_SECRET |-> "", LINE_CHANNEL_ACCESS_TOKEN |-> "",
                   AI_API_KEY |-> ""]

\* ------------------------------------------------------------------------
\* QuestionService.create_question
\* ------------------------------------------------------------------------
\* the document with the user id stored where the pseudonym belongs
new_question_doc_raw_user(course_id, line_user_id, question_text) ==
    [course_id |-> course_id,
     pseudonym |-> line_user_id,
     question_text |-> question_text,
     created_at |-> "utcnow",
     status |-> "PENDING",
     cluster_id |-> NoCluster,
     difficulty_score |-> NoScore,
     difficulty_level |-> None,
     keywords |-> <<>>,
     merged_to_qa_id |-> None,
     is_merged |-> FALSE,
     rejection_reason |-> None,
     ai_response_draft |-> "absent",
     ai_summary |-> "absent"]

new_question_doc(course_id, line_user_id, question_text) ==
    [course_id |-> course_id,
     pseudonym |-> generate_pseudonym(line_user_id),
     question_text |-> question_text,
     created_at |-> "utcnow",
     status |-> "PENDING",
     cluster_id |-> NoCluster,
     difficulty_score |-> NoScore,
     difficulty_level |-> None,
     keywords |-> <<>>,
     merged_to_qa_id |-> None,
     is_merged |-> FALSE,
     rejection_reason |-> None,
     ai_response_draft |-> "absent",
     ai_summary |-> "absent"]

\* the validations without the is_active test
create_question_check_any_course(course_id, line_user_id, question_text, background, cap) ==
    /\ Len(questions) + Cardinality(inserts) < cap
    /\ IF course_id \notin DOMAIN courses
       THEN /\ last' = Step("create_question", 0, course_id, "InvalidCourse")
            /\ UNCHANGED inserts
       ELSE /\ Cardinality(inserts) < MaxInflight
            /\ inserts' = inserts \cup
                 {[course_id |-> course_id, line_user_id |-> line_user_id,
                   question_text |-> question_text, background |-> background]}
            /\ last' = Step("create_question", 0, course_id, "validated")
    /\ UNCHANGED <<courses, questions, status_writes, course_deletes, reset_pc,
                   ai_tasks, drafts, cluster_side, line_side>>

\* get_course and the two validations; cap is the bound on the store
create_question_check(course_id, line_user_id, question_text, background, cap) ==
    /\ Len(questions) + Cardinality(inserts) < cap
    /\ IF course_id \notin DOMAIN courses \/ ~courses[course_id].is_active
       THEN /\ last' = Step("create_question", 0, course_id, "InvalidCourse")
            /\ UNCHANGED inserts
       ELSE /\ Cardinality(inserts) < MaxInflight
            /\ inserts' = inserts \cup
                 {[course_id |-> course_id, line_user_id |-> line_user_id,
                   question_text |-> question_text, background |-> background]}
            /\ last' = Step("create_question", 0, course_id, "validated")
    /\ UNCHANGED <<courses, questions, status_writes, course_deletes, reset_pc,
                   ai_tasks, drafts, cluster_side, line_side>>

\* insert_one and the scheduling of the background analysis
create_question_insert(r) ==
    /\ r \in inserts
    /\ inserts' = inserts \ {r}
    /\ questions' = Append(questions,
                       new_question_doc(r.course_id, r.line_user_id, r.question_text))
    /\ ai_tasks' = IF r.background THEN ai_tasks \cup {Len(questions) + 1} ELSE ai_tasks
    /\ last' = Step("create_question", Len(questions) + 1, r.course_id, "ok")
    /\ UNCHANGED <<courses, status_writes, course_deletes, reset_pc, drafts,
                   cluster_side, line_side>>

\* ------------------------------------------------------------------------
\* QuestionService.update_question_status / delete_question
\* ------------------------------------------------------------------------
status_check(op, question_id, new_status, rejection_reason) ==
    IF question_id \notin QIds
    THEN /\ last' = Step(op, question_id, new_status, "NotFound")
         /\ UNCHANGED status_writes
    ELSE LET verdict == transition_check(questions[question_id].status, new_status)
         IN IF verdict # "ok"
            THEN /\ last' = Step(op, question_id, new_status, verdict)
                 /\ UNCHANGED status_writes
            ELSE /\ Cardinality(status_writes) < MaxInflight
                 /\ status_writes' = status_writes \cup
                      {[qid |-> question_id, new_status |-> new_status,
                        rejection_reason |-> rejection_reason]}
                 /\ last' = Step(op, question_id, new_status, "checked")

update_question_status_check(question_id, new_status, rejection_reason) ==
    /\ status_check("update_question_status", question_id, new_status, rejection_reason)
    /\ UNCHANGED <<courses, questions, inserts, course_deletes, reset_pc,
                   ai_tasks, drafts, cluster_side, line_side>>

delete_question_check(question_id) ==
    /\ status_check("delete_question", question_id, "DELETED", None)
    /\ UNCHANGED <<courses, questions, inserts, course_deletes, reset_pc,
                   ai_tasks, drafts, cluster_side, line_side>>

\* the document after update_one({"$set": update_data}) of update_question_status
set_status(doc, new_status, rejection_reason) ==
    [doc EXCEPT !.status = new_status,
                !.rejection_reason =
                    IF new_status = "REJECTED" /\ rejection_reason # None
                    THEN rejection_reason ELSE @]

update_question_status_write(w) ==
    /\ w \in status_writes
    /\ status_writes' = status_writes \ {w}
    /\ questions' = [questions EXCEPT ![w.qid] =
                        set_status(@, w.new_status, w.rejection_reason)]
    /\ last' = Step("update_question_status", w.qid, w.new_status, "ok")
    /\ UNCHANGED <<courses, inserts, course_deletes, reset_pc, ai_tasks, drafts,
                   cluster_side, line_side>>

\* ------------------------------------------------------------------------
\* CourseService.delete_course
\* ------------------------------------------------------------------------
\* update_course(course_id, {"is_active": False})
delete_course_begin(course_id) ==
    /\ IF course_id \notin DOMAIN courses
       THEN /\ last' = Step("delete_course", 0, course_id, "NotFound")
            /\ UNCHANGED <<courses, course_deletes>>
       ELSE /\ courses' = [courses EXCEPT ![course_id].is_active = FALSE]
            /\ course_deletes' = course_deletes \cup {course_id}
            /\ last' = Step("delete_course", 0, course_id, "deactivated")
    /\ UNCHANGED <<questions, inserts, status_writes, reset_pc, ai_tasks, drafts,
                   cluster_side, line_side>>

\* update_many({"course_id": course_id}, {"$set": {"status": "DELETED"}})
delete_course_cascade(course_id) ==
    /\ course_id \in course_deletes
    /\ course_deletes' = course_deletes \ {course_id}
    /\ questions' = [q \in QIds |->
                        IF questions[q].course_id = course_id
                        THEN [questions[q] EXCEPT !.status = "DELETED"]
                        ELSE questions[q]]
    /\ last' = Step("delete_course", 0, course_id, "ok")
    /\ UNCHANGED <<courses, inserts, status_writes, reset_pc, ai_tasks, drafts,
                   cluster_side, line_side>>

\* ------------------------------------------------------------------------
\* reset_clusters.py: reset_course_data
\* ------------------------------------------------------------------------
\* update_many(q_filter, {"$set": {"cluster_id": None, "status": "PENDING"}})
reset_course_data_questions ==
    /\ reset_pc = "idle"
    /\ reset_pc' = "questions_reset"
    /\ questions' = [q \in QIds |->
                        IF questions[q].course_id = ResetCourse
                        THEN [questions[q] EXCEPT !.cluster_id = NoCluster,
                                                  !.status = "PENDING"]
                        ELSE questions[q]]
    /\ last' = Step("reset_course_data", 0, ResetCourse, "questions_reset")
    /\ UNCHANGED <<courses, inserts, status_writes, course_deletes, ai_tasks, drafts,
                   cluster_side, line_side>>

\* delete_many(c_filter) on the clusters collection
reset_course_data_clusters ==
    /\ reset_pc = "questions_reset"
    /\ reset_pc' = "idle"
    /\ clusters' = [k \in {j \in DOMAIN clusters : clusters[j].course_id # ResetCourse}
                      |-> clusters[k]]
    /\ last' = Step("reset_course_data", 0, ResetCourse, "ok")
    /\ UNCHANGED <<courses, questions, inserts, status_writes, course_deletes,
                   ai_tasks, drafts, next_oid, runs, cluster_deletes, manual_creates,
                   line_side>>

\* ------------------------------------------------------------------------
\* QuestionService.update_ai_analysis and the three routes that call it
\* ------------------------------------------------------------------------
\* update_data with the keywords added to the stored ones
ai_update_data_appending_keywords(doc, result) ==
    [doc EXCEPT !.cluster_id = result.cluster_id,
                !.difficulty_score = result.difficulty_score,
                !.difficulty_level = difficulty_level_of(result.difficulty_score),
                !.keywords = @ \o result.keywords,
                !.ai_response_draft = None,
                !.ai_summary = None]

\* update_data with the stored status overwritten as well
ai_update_data_resetting_status(doc, result) ==
    [doc EXCEPT !.status = "PENDING",
                !.cluster_id = result.cluster_id,
                !.difficulty_score = result.difficulty_score,
                !.difficulty_level = difficulty_level_of(result.difficulty_score),
                !.keywords = result.keywords,
                !.ai_response_draft = None,
                !.ai_summary = None]

\* the document after update_one({"$set": update_data}); AIAnalysisResult
\* declares neither response_draft nor summary, so both getattr calls give None
ai_update_data(doc, result) ==
    [doc EXCEPT !.cluster_id = result.cluster_id,
                !.difficulty_score = result.difficulty_score,
                !.difficulty_level = difficulty_level_of(result.difficulty_score),
                !.keywords = result.keywords,
                !.ai_response_draft = None,
                !.ai_summary = None]

AIAnalysisResult(cluster_id, difficulty_score, keywords) ==
    [cluster_id |-> cluster_id, difficulty_score |-> difficulty_score,
     keywords |-> keywords]

\* POST /ai/analysis/single, /ai/analysis/batch (one result) and
\* POST /questions/{id}/ai-analysis
update_ai_analysis(question_id, result) ==
    /\ IF question_id \notin QIds
       THEN /\ last' = Step("update_ai_analysis", question_id, None, "NotFound")
            /\ UNCHANGED questions
       ELSE /\ questions' = [questions EXCEPT ![question_id] = ai_update_data(@, result)]
            /\ last' = Step("update_ai_analysis", question_id, None, "ok")
    /\ UNCHANGED <<courses, inserts, status_writes, course_deletes, reset_pc,
                   ai_tasks, drafts, cluster_side, line_side>>

\* process_new_question_ai awaits the plain dict that the synchronous
\* ai_service.analyze_question returns: the TypeError is caught and printed,
\* and update_ai_analysis is never reached
process_new_question_ai(question_id) ==
    /\ question_id \in ai_tasks
    /\ ai_tasks' = ai_tasks \ {question_id}
    /\ last' = Step("process_new_question_ai", question_id, None, "failed")
    /\ UNCHANGED <<courses, questions, inserts, status_writes, course_deletes,
                   reset_pc, drafts, cluster_side, line_side>>

\* ------------------------------------------------------------------------
\* POST /ai/questions/{question_id}/draft
\* ------------------------------------------------------------------------
\* the route: get_question, then add_task with the document read in its closure
generate_response_draft(question_id) ==
    /\ IF question_id \notin QIds
       THEN /\ last' = Step("generate_response_draft", question_id, None, "NotFound")
            /\ UNCHANGED drafts
       ELSE /\ Cardinality(drafts) < MaxInflight
            /\ drafts' = drafts \cup
                 {[qid |-> question_id, question |-> questions[question_id]]}
            /\ last' = Step("generate_response_draft", question_id, None, "scheduled")
    /\ UNCHANGED <<courses, questions, inserts, status_writes, course_deletes,
                   reset_pc, ai_tasks, cluster_side, line_side>>

\* what ai_service.analyze_question may return: the model's JSON with or
\* without the two keys, or the defaults after a failure (score 0.0, no keywords)
AnalysisOutcomes ==
    {[difficulty_score |-> sc, keywords |-> kw] :
        sc \in AIScores \cup {NoScore}, kw \in AIKeywords \cup {AbsentKeywords}}

\* the AIAnalysisResult the task builds from the analysis and the closure
draft_result(question, analysis) ==
    AIAnalysisResult(
        question.cluster_id,
        IF analysis.difficulty_score # NoScore THEN analysis.difficulty_score
        ELSE IF question.difficulty_score # NoScore THEN question.difficulty_score
        ELSE DefaultScore,
        IF analysis.keywords # AbsentKeywords THEN analysis.keywords
        ELSE question.keywords)

\* the background task; cluster_id is a required str of AIAnalysisResult, so a
\* closure without a cluster raises a validation error, which the task catches
generate_and_save_draft(d, analysis) ==
    /\ d \in drafts
    /\ drafts' = drafts \ {d}
    /\ IF d.question.cluster_id = NoCluster
       THEN /\ last' = Step("_generate_and_save_draft", d.qid, d.question.status, "failed")
            /\ UNCHANGED questions
       ELSE /\ questions' = [questions EXCEPT ![d.qid] =
                                ai_update_data(@, draft_result(d.question, analysis))]
            /\ last' = Step("_generate_and_save_draft", d.qid, d.question.status, "ok")
    /\ UNCHANGED <<courses, inserts, status_writes, course_deletes, reset_pc,
                   ai_tasks, cluster_side, line_side>>

\* ------------------------------------------------------------------------
\* create_test_data.py
\* ------------------------------------------------------------------------
seed_statuses == {"PENDING", "APPROVED", "REJECTED"}
seed_difficulties == {<<3, "easy">>, <<5, "medium">>, <<8, "hard">>}

seed_question_doc(i, status, difficulty) ==
    [course_id |-> SeedCourse,
     pseudonym |-> generate_pseudonym("test_user"),
     question_text |-> "t1",
     created_at |-> "utcnow",
     status |-> status,
     cluster_id |-> 0 - (((i - 1) % SeedClusters) + 1),
     difficulty_score |-> difficulty[1],
     difficulty_level |-> difficulty[2],
     keywords |-> <<"kw">>,
     merged_to_qa_id |-> None,
     is_merged |-> FALSE,
     rejection_reason |-> None,
     ai_response_draft |-> "absent",
     ai_summary |-> "absent"]

\* insert_one of the test course, then insert_many of the test questions
create_test_data(picks) ==
    /\ SeedCourse \notin DOMAIN courses
    /\ courses' = [c \in DOMAIN courses \cup {SeedCourse} |->
                      IF c = SeedCourse THEN [is_active |-> TRUE] ELSE courses[c]]
    /\ questions' = questions \o
          [i \in 1..SeedQuestions |-> seed_question_doc(i, picks[i][1], picks[i][2])]
    /\ last' = Step("create_test_data", 0, SeedCourse, "ok")
    /\ UNCHANGED <<inserts, status_writes, course_deletes, reset_pc, ai_tasks,
                   drafts, cluster_side, line_side>>

\* ------------------------------------------------------------------------
\* SpecAI: the AI write path next to staff transitions
\* ------------------------------------------------------------------------
NextAI ==
    \/ create_question_check("c1", "U1", "t1", TRUE, MaxAIQuestions)
    \/ \E r \in inserts : create_question_insert(r)
    \/ \E q \in 1..MaxAIQuestions, s \in QuestionStatus :
          update_question_status_check(q, s, None)
    \/ \E w \in status_writes : update_question_status_write(w)
    \/ \E q \in 1..MaxAIQuestions, sc \in AIScores, kw \in AIKeywords :
          update_ai_analysis(q, AIAnalysisResult(1, sc, kw))
    \/ \E q \in ai_tasks : process_new_question_ai(q)
    \/ \E q \in 1..MaxAIQuestions : generate_response_draft(q)
    \/ \E d \in drafts, a \in AnalysisOutcomes : generate_and_save_draft(d, a)
    \/ \E picks \in [1..SeedQuestions -> seed_statuses \X seed_difficulties] :
          create_test_data(picks)

SpecAI == Init /\ [][NextAI]_vars

\* ------------------------------------------------------------------------
\* Claims about the AI write path (checked under SpecAI)
\* ------------------------------------------------------------------------
AIPathOps ==
    {"update_ai_analysis", "process_new_question_ai", "generate_response_draft",
     "_generate_and_save_draft"}

\* C4: no step of the AI path (an update_ai_analysis call, the background
\* analysis of a new question, the draft route and its background task)
\* changes the stored status of any question, whatever a staff transition
\* wrote before it or while it was in flight.
C4_AIPathKeepsStatus ==
    [][last'.op \in AIPathOps =>
          \A q \in QIds : questions'[q].status = questions[q].status]_vars

\* a draft task whose closure holds the question as PENDING has written after
\* a staff transition approved the question, and the status is still APPROVED
C4_Witness ==
    /\ last.op = "_generate_and_save_draft"
    /\ last.res = "ok"
    /\ last.arg = "PENDING"
    /\ questions[last.qid].status = "APPROVED"

\* C5: every stored question has the difficulty_level that the thresholds
\* give for its difficulty_score: unset for an unset score, easy below 0.3,
\* medium from 0.3 to below 0.7, hard from 0.7.
C5_LevelMatchesScore ==
    \A q \in QIds :
        LET sc == questions[q].difficulty_score
            lv == questions[q].difficulty_level
        IN /\ sc = NoScore => lv = None
           /\ (sc # NoScore /\ sc < 3) => lv = "easy"
           /\ (3 <= sc /\ sc < 7) => lv = "medium"
           /\ 7 <= sc => lv = "hard"

\* ------------------------------------------------------------------------
\* Spec: the status lifecycle of questions
\* ------------------------------------------------------------------------
Next ==
    \/ \E c \in {"c1", UnknownCourse} :
          create_question_check(c, "U1", "t1", FALSE, MaxQuestions)
    \/ \E r \in inserts : create_question_insert(r)
    \/ \E q \in 1..MaxQuestions, s \in QuestionStatus, rr \in Reasons :
          update_question_status_check(q, s, rr)
    \/ \E q \in 1..MaxQuestions : delete_question_check(q)
    \/ \E w \in status_writes : update_question_status_write(w)
    \/ \E c \in {"c1", UnknownCourse} : delete_course_begin(c)
    \/ \E c \in course_deletes : delete_course_cascade(c)
    \/ reset_course_data_questions
    \/ reset_course_data_clusters

Spec == Init /\ [][Next]_vars

\* ------------------------------------------------------------------------
\* Claims about the status state machine (checked under Spec)
\* ------------------------------------------------------------------------
\* the allowed-transition table as the specification states it
TransitionTable ==
    {<<"PENDING", "APPROVED">>, <<"PENDING", "REJECTED">>, <<"PENDING", "DELETED">>,
     <<"PENDING", "WITHDRAWN">>, <<"APPROVED", "DELETED">>, <<"REJECTED", "DELETED">>,
     <<"WITHDRAWN", "DELETED">>}

\* the step just taken is the check of a transition of question q to status s
StatusCheckStep(q, s) ==
    /\ last'.op \in {"update_question_status", "delete_question"}
    /\ last'.res \in {"checked", "IllegalTransition"}
    /\ last'.qid = q
    /\ last'.arg = s

\* the step just taken is the update_one of a transition of question q to status s
StatusWriteStep(q, s) ==
    /\ last'.op = "update_question_status"
    /\ last'.res = "ok"
    /\ last'.qid = q
    /\ last'.arg = s
    /\ [qid |-> q, new_status |-> s] \in
          {[qid |-> w.qid, new_status |-> w.new_status] : w \in status_writes \ status_writes'}

\* C1: a transition whose (current, target) pair is not in the table and whose
\* target is not DELETED fails with IllegalTransition, and neither the stored
\* question nor the set of pending writes changes.
C1_IllegalTransitionRejected ==
    [][\A q \in QIds, s \in QuestionStatus \ {"DELETED"} :
          (StatusCheckStep(q, s) /\ <<questions[q].status, s>> \notin TransitionTable)
             => /\ last'.res = "IllegalTransition"
                /\ questions' = questions
                /\ status_writes' = status_writes]_vars

\* a move out of DELETED to PENDING has just been refused
C1_Witness ==
    /\ last.op = "update_question_status"
    /\ last.res = "IllegalTransition"
    /\ last.arg = "PENDING"
    /\ last.qid \in QIds
    /\ questions[last.qid].status = "DELETED"

\* C2: once the stored status of a question is DELETED, no step of the
\* program changes it.
C2_DeletedIsTerminal ==
    [][\A q \in QIds :
          questions[q].status = "DELETED" => questions'[q].status = "DELETED"]_vars

clusters_of_any_course(cid) == DOMAIN clusters

course_clusters(cid) == {c \in DOMAIN clusters : clusters[c].course_id = cid}

insert_cluster(oid, doc) ==
    [c \in DOMAIN clusters \cup {oid} |-> IF c = oid THEN doc ELSE clusters[c]]

\* the update with the label written to topic_label only
update_cluster_no_manual_label(cluster_id, topic_label, is_locked) ==
    /\ IF cluster_id \notin DOMAIN clusters
       THEN /\ last' = Step("update_cluster", cluster_id, topic_label, "NotFound")
            /\ UNCHANGED clusters
       ELSE /\ clusters' = [clusters EXCEPT ![cluster_id] =
                 [@ EXCEPT !.topic_label = IF topic_label # None THEN topic_label ELSE @,
                           !.is_locked = IF is_locked # None THEN is_locked = "true" ELSE @]]
            /\ last' = Step("update_cluster", cluster_id, topic_label,
                            IF is_locked = None THEN "lock_kept"
                            ELSE IF is_locked = "true" THEN "locked" ELSE "unlocked")
    /\ UNCHANGED <<courses, questions, inserts, status_writes, course_deletes,
                   reset_pc, ai_tasks, drafts, next_oid, runs, cluster_deletes,
                   manual_creates, line_side>>

\* PATCH /clusters/{cluster_id}: one update_one; a label given is written to
\* topic_label and manual_label, is_locked when it is not None
update_cluster(cluster_id, topic_label, is_locked) ==
    /\ IF cluster_id \notin DOMAIN clusters
       THEN /\ last' = Step("update_cluster", cluster_id, topic_label, "NotFound")
            /\ UNCHANGED clusters
       ELSE /\ clusters' = [clusters EXCEPT ![cluster_id] =
                 [@ EXCEPT !.topic_label = IF topic_label # None THEN topic_label ELSE @,
                           !.manual_label = IF topic_label # None THEN topic_label ELSE @,
                           !.is_locked = IF is_locked # None THEN is_locked = "true" ELSE @]]
            /\ last' = Step("update_cluster", cluster_id, topic_label,
                            IF is_locked = None THEN "lock_kept"
                            ELSE IF is_locked = "true" THEN "locked" ELSE "unlocked")
    /\ UNCHANGED <<courses, questions, inserts, status_writes, course_deletes,
                   reset_pc, ai_tasks, drafts, next_oid, runs, cluster_deletes,
                   manual_creates, line_side>>

\* POST /clusters/manual, up to the answer of find_one
create_manual_cluster_check(course_id, topic_label) ==
    /\ next_oid < MaxOids
    /\ IF \E c \in course_clusters(course_id) : clusters[c].topic_label = topic_label
       THEN /\ last' = Step("create_manual_cluster", 0, topic_label, "LabelExists")
            /\ UNCHANGED manual_creates
       ELSE /\ manual_creates' = manual_creates \cup
                    {[course_id |-> course_id, topic_label |-> topic_label]}
            /\ last' = Step("create_manual_cluster", 0, topic_label, "checked")
    /\ UNCHANGED <<courses, questions, inserts, status_writes, course_deletes,
                   reset_pc, ai_tasks, drafts, clusters, next_oid, runs,
                   cluster_deletes, line_side>>

manual_cluster_doc(course_id, topic_label) ==
    [course_id |-> course_id, topic_label |-> topic_label,
     manual_label |-> topic_label, is_locked |-> TRUE, question_count |-> 0,
     summary |-> "manual"]

\* POST /clusters/manual, insert_one
create_manual_cluster_insert(m) ==
    /\ m \in manual_creates
    /\ manual_creates' = manual_creates \ {m}
    /\ next_oid' = next_oid + 1
    /\ clusters' = insert_cluster(next_oid + 1,
                                  manual_cluster_doc(m.course_id, m.topic_label))
    /\ last' = Step("create_manual_cluster", next_oid + 1, m.topic_label, "ok")
    /\ UNCHANGED <<courses, questions, inserts, status_writes, course_deletes,
                   reset_pc, ai_tasks, drafts, runs, cluster_deletes, line_side>>

\* DELETE /clusters/{cluster_id}: an id that is no ObjectId (negative here)
\* is refused; otherwise update_many releases the member questions
delete_cluster_release(cluster_id) ==
    /\ IF cluster_id < 0
       THEN /\ last' = Step("delete_cluster", cluster_id, None, "InvalidId")
            /\ UNCHANGED <<questions, cluster_deletes>>
       ELSE /\ Cardinality(cluster_deletes) < MaxInflight
            /\ questions' = [q \in QIds |->
                                IF questions[q].cluster_id = cluster_id
                                THEN [questions[q] EXCEPT !.cluster_id = NoCluster]
                                ELSE questions[q]]
            /\ cluster_deletes' = cluster_deletes \cup
                 {[cluster_id |-> cluster_id,
                   modified |-> \E q \in QIds : questions[q].cluster_id = cluster_id]}
            /\ last' = Step("delete_cluster", cluster_id, None, "released")
    /\ UNCHANGED <<courses, inserts, status_writes, course_deletes, reset_pc,
                   ai_tasks, drafts, clusters, next_oid, runs, manual_creates,
                   line_side>>

\* DELETE /clusters/{cluster_id}: delete_one; the step records whether the
\* update_many before it had released any question
delete_cluster_delete(d) ==
    /\ d \in cluster_deletes
    /\ cluster_deletes' = cluster_deletes \ {d}
    /\ clusters' = [c \in DOMAIN clusters \ {d.cluster_id} |-> clusters[c]]
    /\ last' = Step("delete_cluster", d.cluster_id,
                    IF d.modified THEN "members" ELSE "empty",
                    IF d.cluster_id \in DOMAIN clusters THEN "deleted" ELSE "NotFound")
    /\ UNCHANGED <<courses, questions, inserts, status_writes, course_deletes,
                   reset_pc, ai_tasks, drafts, next_oid, runs, manual_creates,
                   line_side>>

\* ------------------------------------------------------------------------
\* QuestionService.get_pending_questions_for_ai
\* ------------------------------------------------------------------------
RECURSIVE pending_ids_any_cluster(_, _)
\* the find filter without "cluster_id": None
pending_ids_any_cluster(course_id, n) ==
    IF n = 0 THEN <<>>
    ELSE LET rest == pending_ids_any_cluster(course_id, n - 1)
             q == questions[n]
         IN IF /\ q.course_id = course_id
               /\ q.status = "PENDING"
            THEN Append(rest, n) ELSE rest

RECURSIVE pending_ids(_, _)
\* ids of the first n stored questions that the find filter matches, in
\* insertion order
pending_ids(course_id, n) ==
    IF n = 0 THEN <<>>
    ELSE LET rest == pending_ids(course_id, n - 1)
             q == questions[n]
         IN IF /\ q.course_id = course_id
               /\ q.status = "PENDING"
               /\ q.cluster_id = NoCluster
            THEN Append(rest, n) ELSE rest

\* a row that copies every stored field
ai_question_whole_document(qid) ==
    [f \in DOMAIN questions[qid] \cup {"_id"} |->
        IF f = "_id" THEN qid ELSE questions[qid][f]]

\* the dict built for one question
ai_question(qid) ==
    [_id |-> qid,
     pseudonym |-> questions[qid].pseudonym,
     question_text |-> questions[qid].question_text,
     created_at |-> questions[qid].created_at]

\* the query without .limit(limit)
get_pending_questions_unlimited(course_id, limit) ==
    LET ids == pending_ids(course_id, Len(questions))
    IN [k \in 1..Len(ids) |-> ai_question(ids[k])]

get_pending_questions_for_ai(course_id, limit) ==
    LET ids == pending_ids(course_id, Len(questions))
        n == IF Len(ids) < limit THEN Len(ids) ELSE limit
    IN [k \in 1..n |-> ai_question(ids[k])]

\* ------------------------------------------------------------------------
\* POST /ai/clusters/generate and _run_clustering_task
\* ------------------------------------------------------------------------
\* an entry of question_indices after json.loads: a Python int, a bool (an
\* instance of int with value 1 or 0), or a str
JsonInt(n) == [type |-> "int", value |-> n]
JsonBool(b) == [type |-> "bool", value |-> IF b THEN 1 ELSE 0]
JsonString(n) == [type |-> "str", value |-> n]

Ints(seq) == [k \in DOMAIN seq |-> JsonInt(seq[k])]

\* isinstance(idx, int)
isinstance_int(idx) == idx.type \in {"int", "bool"}

Group(topic_label, question_indices) ==
    [topic_label |-> topic_label, question_indices |-> question_indices]

\* what perform_advanced_clustering may hand back: nothing usable (None, {},
\* no "clusters" key, or an exception), or a list of groups
ClusteringResponses ==
    {[usable |-> FALSE, clusters |-> <<>>],
     [usable |-> TRUE, clusters |-> <<>>],
     [usable |-> TRUE, clusters |->
        <<Group("loops", Ints(<<0>>)), Group("recursion", Ints(<<0>>)), Group("debugging", Ints(<<0>>))>>],
     [usable |-> TRUE, clusters |->
        <<Group("syntax", Ints(<<0, 2>>)), Group("syntax", Ints(<<1>>))>>]}

RunIds == 1..(MaxRuns + 1)

\* the route: add_task(_run_clustering_task, course_id, max_clusters); the
\* route itself never looks at the tasks in flight, cap bounds the model
add_clustering_task(course_id, max_clusters, cap) ==
    /\ Cardinality(runs) < cap
    /\ next_oid < MaxOids
    /\ LET rid == CHOOSE i \in RunIds :
                     /\ \A r \in runs : r.rid # i
                     /\ \A j \in RunIds : (\A r \in runs : r.rid # j) => i <= j
       IN runs' = runs \cup
            {[rid |-> rid, course_id |-> course_id, max_c |-> max_clusters,
              pc |-> "load_clusters",
              existing_topic_map |-> [l \in Labels |-> NoTarget],
              remaining_quota |-> 0, questions |-> <<>>, clusters_data |-> <<>>,
              i |-> 0, target |-> NoTarget, created |-> 0]}
    /\ last' = Step("generate_course_clusters", 0, course_id, "scheduled")
    /\ UNCHANGED <<courses, questions, inserts, status_writes, course_deletes,
                   reset_pc, ai_tasks, drafts, clusters, next_oid, cluster_deletes,
                   manual_creates, line_side>>

generate_course_clusters(course_id, max_clusters) ==
    add_clustering_task(course_id, max_clusters, MaxRuns)

\* step 1: the dict comprehension keeps one id per label; which one, when two
\* clusters of the course carry the same label, depends on the order find
\* returns them in
run_load_clusters(r, topic_map) ==
    /\ r \in runs
    /\ r.pc = "load_clusters"
    /\ \A l \in Labels :
          LET same == {c \in course_clusters(r.course_id) : clusters[c].topic_label = l}
          IN IF same = {} THEN topic_map[l] = NoTarget ELSE topic_map[l] \in same
    /\ LET current_count == Cardinality({l \in Labels : topic_map[l] # NoTarget})
       IN runs' = (runs \ {r}) \cup
            {[r EXCEPT !.pc = "load_questions",
                       !.existing_topic_map = topic_map,
                       !.remaining_quota =
                           IF r.max_c - current_count < 0 THEN 0
                           ELSE r.max_c - current_count]}
    /\ last' = Step("_run_clustering_task", 0, None, "clusters_loaded")
    /\ UNCHANGED <<courses, questions, inserts, status_writes, course_deletes,
                   reset_pc, ai_tasks, drafts, clusters, next_oid, cluster_deletes,
                   manual_creates, line_side>>

\* index of the first group after i that has indices, 0 when there is none
next_group(clusters_data, i) ==
    LET later == {j \in (i + 1)..Len(clusters_data) :
                     clusters_data[j].question_indices # <<>>}
    IN IF later = {} THEN 0 ELSE CHOOSE j \in later : \A k \in later : j <= k

\* the run after the group at r.i is finished: at the next group, or gone
runs_after_group(r, r2) ==
    IF next_group(r2.clusters_data, r2.i) = 0 THEN runs \ {r}
    ELSE (runs \ {r}) \cup
           {[r2 EXCEPT !.pc = "cluster", !.target = NoTarget,
                       !.i = next_group(r2.clusters_data, r2.i)]}

\* steps 2 and 3 without the return on an empty batch
run_load_questions_no_batch_test(r, ai_result) ==
    /\ r \in runs
    /\ r.pc = "load_questions"
    /\ LET batch == get_pending_questions_for_ai(r.course_id, ClusteringLimit)
       IN IF ~ai_result.usable
          THEN /\ runs' = runs \ {r}
               /\ last' = Step("_run_clustering_task", 0, None, "bad_format")
          ELSE /\ runs' = runs_after_group(r,
                     [r EXCEPT !.questions = batch,
                               !.clusters_data = ai_result.clusters])
               /\ last' = Step("_run_clustering_task", Len(batch), None, "batch_loaded")
    /\ UNCHANGED <<courses, questions, inserts, status_writes, course_deletes,
                   reset_pc, ai_tasks, drafts, clusters, next_oid, cluster_deletes,
                   manual_creates, line_side>>

\* steps 2 and 3: the batch, then the synchronous call of the AI
run_load_questions(r, ai_result) ==
    /\ r \in runs
    /\ r.pc = "load_questions"
    /\ LET batch == get_pending_questions_for_ai(r.course_id, ClusteringLimit)
       IN IF batch = <<>>
          THEN /\ runs' = runs \ {r}
               /\ last' = Step("_run_clustering_task", 0, None, "no_questions")
          ELSE IF ~ai_result.usable
          THEN /\ runs' = runs \ {r}
               /\ last' = Step("_run_clustering_task", 0, None, "bad_format")
          ELSE /\ runs' = runs_after_group(r,
                     [r EXCEPT !.questions = batch,
                               !.clusters_data = ai_result.clusters])
               /\ last' = Step("_run_clustering_task", Len(batch), None, "batch_loaded")
    /\ UNCHANGED <<courses, questions, inserts, status_writes, course_deletes,
                   reset_pc, ai_tasks, drafts, clusters, next_oid, cluster_deletes,
                   manual_creates, line_side>>

\* ids of the batch questions at the in-range indices of a group
target_q_ids(r, indices) ==
    {r.questions[indices[k].value + 1]._id :
        k \in {j \in 1..Len(indices) :
                  /\ isinstance_int(indices[j])
                  /\ 0 <= indices[j].value
                  /\ indices[j].value < Len(r.questions)}}

\* the inserted document with is_locked true
new_cluster_doc_locked(course_id, topic_label, indices) ==
    [course_id |-> course_id, topic_label |-> topic_label, manual_label |-> None,
     is_locked |-> TRUE, question_count |-> Len(indices), summary |-> ""]

\* the document a run inserts; the groups of the model carry no summary, so
\* cluster_data.get("summary", "") is ""
new_cluster_doc(course_id, topic_label, indices) ==
    [course_id |-> course_id, topic_label |-> topic_label, manual_label |-> None,
     is_locked |-> FALSE, question_count |-> Len(indices), summary |-> ""]

\* step 4, first await of a group, counting only the batch questions that
\* are still without a cluster
run_group_cluster_counting_unclustered(r) ==
    /\ r \in runs
    /\ r.pc = "cluster"
    /\ LET g == r.clusters_data[r.i]
           label == g.topic_label
           indices == g.question_indices
           known == r.existing_topic_map[label] # NoTarget
           target == IF known THEN r.existing_topic_map[label] ELSE next_oid + 1
           r2 == [r EXCEPT !.target = target,
                           !.pc = "assign",
                           !.existing_topic_map = [@ EXCEPT ![label] = target],
                           !.created = IF known THEN @ ELSE @ + 1]
       IN /\ IF known
             THEN /\ clusters' =
                       IF target \in DOMAIN clusters
                       THEN [clusters EXCEPT ![target].question_count = @ +
                                Cardinality({q \in target_q_ids(r, indices) :
                                                questions[q].cluster_id = NoCluster})]
                       ELSE clusters
                  /\ UNCHANGED next_oid
             ELSE /\ clusters' = insert_cluster(target,
                                     new_cluster_doc(r.course_id, label, indices))
                  /\ next_oid' = next_oid + 1
          /\ runs' = IF target_q_ids(r, indices) # {}
                     THEN (runs \ {r}) \cup {r2}
                     ELSE runs_after_group(r, r2)
          /\ last' = Step("_run_clustering_task", Len(indices), label,
                          IF known THEN "inc" ELSE "insert")
    /\ UNCHANGED <<courses, questions, inserts, status_writes, course_deletes,
                   reset_pc, ai_tasks, drafts, cluster_deletes, manual_creates,
                   line_side>>

\* step 4, first await of a group: update_one with $inc on the mapped
\* cluster, or insert_one of a new cluster that is then put into the map
run_group_cluster(r) ==
    /\ r \in runs
    /\ r.pc = "cluster"
    /\ LET g == r.clusters_data[r.i]
           label == g.topic_label
           indices == g.question_indices
           known == r.existing_topic_map[label] # NoTarget
           target == IF known THEN r.existing_topic_map[label] ELSE next_oid + 1
           r2 == [r EXCEPT !.target = target,
                           !.pc = "assign",
                           !.existing_topic_map = [@ EXCEPT ![label] = target],
                           !.created = IF known THEN @ ELSE @ + 1]
       IN /\ IF known
             THEN /\ clusters' =
                       IF target \in DOMAIN clusters
                       THEN [clusters EXCEPT ![target].question_count = @ + Len(indices)]
                       ELSE clusters
                  /\ UNCHANGED next_oid
             ELSE /\ clusters' = insert_cluster(target,
                                     new_cluster_doc(r.course_id, label, indices))
                  /\ next_oid' = next_oid + 1
          /\ runs' = IF target_q_ids(r, indices) # {}
                     THEN (runs \ {r}) \cup {r2}
                     ELSE runs_after_group(r, r2)
          /\ last' = Step("_run_clustering_task", Len(indices), label,
                          IF known THEN "inc" ELSE "insert")
    /\ UNCHANGED <<courses, questions, inserts, status_writes, course_deletes,
                   reset_pc, ai_tasks, drafts, cluster_deletes, manual_creates,
                   line_side>>

\* step 4, second await of a group: update_many on the batch questions
run_group_assign(r) ==
    /\ r \in runs
    /\ r.pc = "assign"
    /\ LET ids == target_q_ids(r, r.clusters_data[r.i].question_indices)
       IN questions' = [q \in QIds |->
                          IF q \in ids
                          THEN [questions[q] EXCEPT !.cluster_id = r.target]
                          ELSE questions[q]]
    /\ runs' = runs_after_group(r, r)
    /\ last' = Step("_run_clustering_task", r.target,
                    r.clusters_data[r.i].topic_label, "assign")
    /\ UNCHANGED <<courses, inserts, status_writes, course_deletes, reset_pc,
                   ai_tasks, drafts, clusters, next_oid, cluster_deletes,
                   manual_creates, line_side>>

\* ------------------------------------------------------------------------
\* SpecCluster: reconciliation runs next to manual cluster management
\* ------------------------------------------------------------------------
NextCluster ==
    \/ create_question_check("c1", "U1", "t1", FALSE, MaxClusterQuestions)
    \/ \E r \in inserts : create_question_insert(r)
    \/ generate_course_clusters("c1", TopicCeiling)
    \/ \E r \in runs, m \in [Labels -> 0..next_oid] : run_load_clusters(r, m)
    \/ \E r \in runs, a \in ClusteringResponses : run_load_questions(r, a)
    \/ \E r \in runs : run_group_cluster(r)
    \/ \E r \in runs : run_group_assign(r)
    \/ \E l \in {"loops", "syntax"} : create_manual_cluster_check("c1", l)
    \/ \E m \in manual_creates : create_manual_cluster_insert(m)
    \/ \E c \in 1..MaxOids : update_cluster(c, "syntax", "true")

SpecCluster == Init /\ [][NextCluster]_vars

\* ------------------------------------------------------------------------
\* SpecDelete: reconciliation runs next to cluster deletion
\* ------------------------------------------------------------------------
NextDelete ==
    \/ create_question_check("c1", "U1", "t1", FALSE, MaxClusterQuestions)
    \/ \E r \in inserts : create_question_insert(r)
    \/ generate_course_clusters("c1", TopicCeiling)
    \/ \E r \in runs, m \in [Labels -> 0..next_oid] : run_load_clusters(r, m)
    \/ \E r \in runs, a \in ClusteringResponses : run_load_questions(r, a)
    \/ \E r \in runs : run_group_cluster(r)
    \/ \E r \in runs : run_group_assign(r)
    \/ \E c \in {-1} \cup 1..MaxOids : delete_cluster_release(c)
    \/ \E d \in cluster_deletes : delete_cluster_delete(d)

SpecDelete == Init /\ [][NextDelete]_vars

\* ------------------------------------------------------------------------
\* Claims about reconciliation and cluster deletion
\* ------------------------------------------------------------------------
\* C6: a reconciliation run creates at most remaining_quota =
\* max(0, ceiling - existing topics) new clusters, whatever the AI response
\* proposes (checked under SpecCluster; created counts the insert_one calls
\* of the run so far).
C6_RunRespectsQuota ==
    \A r \in runs : r.pc \in {"cluster", "assign"} => r.created <= r.remaining_quota

\* C7: when a run handles a group whose label is the label of a cluster of
\* the course that exists at that point, it creates no cluster and a cluster
\* with that label gets the group size added to its question_count
\* (checked under SpecCluster).
C7_LabelIsJoinKey ==
    [][(/\ last'.op = "_run_clustering_task"
        /\ last'.res \in {"inc", "insert"}
        /\ \E c \in course_clusters("c1") : clusters[c].topic_label = last'.arg)
       => /\ DOMAIN clusters' = DOMAIN clusters
          /\ \E c \in course_clusters("c1") :
                /\ clusters[c].topic_label = last'.arg
                /\ clusters'[c].question_count =
                      clusters[c].question_count + last'.qid]_vars

\* C8: the update_many of delete_cluster changes nothing but the cluster_id
\* of the questions that referenced the cluster, and when a delete_cluster
\* that released member questions completes, the cluster document is gone
\* and no question references its id (checked under SpecDelete).
C8_DeleteReleasesMembers ==
    [][last'.op = "delete_cluster" =>
         /\ last'.res = "released" =>
               \A q \in QIds :
                   questions'[q] =
                       IF questions[q].cluster_id = last'.qid
                       THEN [questions[q] EXCEPT !.cluster_id = NoCluster]
                       ELSE questions[q]
         /\ (last'.res \in {"deleted", "NotFound"} /\ last'.arg = "members") =>
               /\ last'.qid \notin DOMAIN clusters'
               /\ \A q \in QIds : questions'[q].cluster_id # last'.qid]_vars

\* ------------------------------------------------------------------------
\* POST /line/webhook (line_integration.py)
\* ------------------------------------------------------------------------
Secrets == {"", "s3cret"}
AccessTokens == {"", "token"}
Bodies == {"text:U1", "text:U2", "follow:U1", "not json"}

\* base64 of the HMAC-SHA256 digest of the body under the secret: one value
\* per (secret, body), none of them shared
hmac_sha256_b64(secret, body) ==
    CASE secret = "s3cret" /\ body = "text:U1" -> "kX3v"
      [] secret = "s3cret" /\ body = "text:U2" -> "p9Qa"
      [] secret = "s3cret" /\ body = "follow:U1" -> "Zm1u"
      [] secret = "s3cret" /\ body = "not json" -> "b7Lc"
      [] secret = "" /\ body = "text:U1" -> "Hd2e"
      [] secret = "" /\ body = "text:U2" -> "w5Ty"
      [] secret = "" /\ body = "follow:U1" -> "Rr8s"
      [] secret = "" /\ body = "not json" -> "j4Ng"
      [] OTHER -> "0000"

\* header values a request may carry: none, empty, forged, or a signature
\* computed under either secret
Signatures ==
    {None, "", "forged"} \cup {hmac_sha256_b64(k, b) : k \in Secrets, b \in Bodies}

\* a comparison that lets every header through
signature_matches_any(secret, body, x_line_signature) == TRUE

signature_matches(secret, body, x_line_signature) ==
    hmac_sha256_b64(secret, body) = x_line_signature

\* the event the SDK parses out of a body
parse_event(body) ==
    CASE body = "text:U1" -> [type |-> "text", user_id |-> "U1", text |-> "t1"]
      [] body = "text:U2" -> [type |-> "text", user_id |-> "U2", text |-> "t1"]
      [] body = "follow:U1" -> [type |-> "follow", user_id |-> "U1", text |-> ""]
      [] OTHER -> [type |-> "invalid", user_id |-> "", text |-> ""]

line_message(user_id, direction, content) ==
    [user_id |-> user_id, pseudonym |-> generate_pseudonym(user_id),
     direction |-> direction, content |-> content]

\* handle_text_message: the received message, then the reply and its log
\* entry, or the failure entry when the AI or the reply call raises
handle_text_message(event, replied) ==
    <<line_message(event.user_id, "received", event.text),
      IF replied THEN line_message(event.user_id, "sent", "reply")
      ELSE line_message(event.user_id, "failed", event.text)>>

\* the status code and the log entries of one request
webhook_outcome(body, x_line_signature, replied) ==
    IF settings.LINE_CHANNEL_SECRET = "" \/ settings.LINE_CHANNEL_ACCESS_TOKEN = ""
    THEN [status |-> 500, res |-> "NotConfigured", log |-> <<>>]
    ELSE IF x_line_signature = None \/ x_line_signature = ""
    THEN [status |-> 400, res |-> "MissingSignature", log |-> <<>>]
    ELSE IF ~signature_matches(settings.LINE_CHANNEL_SECRET, body, x_line_signature)
    THEN [status |-> 400, res |-> "InvalidSignature", log |-> <<>>]
    ELSE IF parse_event(body).type = "invalid"
    THEN [status |-> 500, res |-> "HandlerFailed", log |-> <<>>]
    ELSE IF parse_event(body).type = "text"
    THEN [status |-> 200, res |-> "ok",
          log |-> handle_text_message(parse_event(body), replied)]
    ELSE [status |-> 200, res |-> "ok", log |-> <<>>]

line_webhook(body, x_line_signature, replied) ==
    /\ Len(line_messages) < MaxLineMessages
    /\ LET out == webhook_outcome(body, x_line_signature, replied)
       IN /\ line_messages' = line_messages \o out.log
          /\ last' = Step("line_webhook", out.status, None, out.res)
    /\ webhook_request' = [body |-> body, x_line_signature |-> x_line_signature]
    /\ UNCHANGED <<courses, questions, inserts, status_writes, course_deletes,
                   reset_pc, ai_tasks, drafts, cluster_side, settings, chat_side>>

\* ------------------------------------------------------------------------
\* SpecWebhook: the webhook under every LINE configuration
\* ------------------------------------------------------------------------
InitWebhook ==
    /\ InitStore
    /\ settings \in [LINE_CHANNEL_SECRET : Secrets,
                      LINE_CHANNEL_ACCESS_TOKEN : AccessTokens,
                      AI_API_KEY : {""}]

NextWebhook ==
    \/ \E b \in Bodies, sig \in Signatures, replied \in BOOLEAN :
          line_webhook(b, sig, replied)
    \/ \E u \in LineUsers : create_question_check("c1", u, "t1", FALSE, MaxQuestions)
    \/ \E r \in inserts : create_question_insert(r)

SpecWebhook == InitWebhook /\ [][NextWebhook]_vars

\* ------------------------------------------------------------------------
\* Claims about the webhook (checked under SpecWebhook)
\* ------------------------------------------------------------------------
\* the request handled last carried no signature, or one that is not the
\* base64 HMAC-SHA256 of its body under the channel secret
BadSignature(request) ==
    \/ request.x_line_signature = None
    \/ request.x_line_signature #
          hmac_sha256_b64(settings.LINE_CHANNEL_SECRET, request.body)

PendingRows == get_pending_questions_for_ai("c1", ClusteringLimit)

Limits == {1, 2}

\* the route: the rows of the service call go into the response unchanged;
\* the step records limit, course and rows
list_pending_for_ai(course_id, limit) ==
    /\ last' = Step("get_pending_questions_for_ai", limit, course_id,
                    get_pending_questions_for_ai(course_id, limit))
    /\ UNCHANGED <<courses, questions, inserts, status_writes, course_deletes,
                   reset_pc, ai_tasks, drafts, cluster_side, line_side>>

\* ------------------------------------------------------------------------
\* SpecPending: the pending query next to creation, transitions and analysis
\* ------------------------------------------------------------------------
NextPending ==
    \/ \E c \in CourseIds :
          create_question_check(c, "U1", "t1", FALSE, MaxPendingQuestions)
    \/ \E r \in inserts : create_question_insert(r)
    \/ \E q \in 1..MaxPendingQuestions, s \in QuestionStatus :
          update_question_status_check(q, s, None)
    \/ \E w \in status_writes : update_question_status_write(w)
    \/ \E q \in 1..MaxPendingQuestions :
          update_ai_analysis(q, AIAnalysisResult(1, 3, <<"kw">>))
    \/ \E c \in CourseIds, l \in Limits : list_pending_for_ai(c, l)

SpecPending == Init /\ [][NextPending]_vars

\* C11: the rows returned for (course_id, limit) are at most limit many, and
\* each is a stored question of that course with status PENDING and no
\* cluster_id.
C11_PendingOnly ==
    last.op = "get_pending_questions_for_ai" =>
        /\ Len(last.res) <= last.qid
        /\ \A k \in 1..Len(last.res) :
              LET q == last.res[k]._id
              IN /\ q \in QIds
                 /\ questions[q].course_id = last.arg
                 /\ questions[q].status = "PENDING"
                 /\ questions[q].cluster_id = NoCluster

\* the query with limit 1 has returned one row while the store holds two
\* matching questions of the course
C11_Witness ==
    /\ last.op = "get_pending_questions_for_ai"
    /\ last.qid = 1
    /\ Len(last.res) = 1
    /\ Len(pending_ids(last.arg, Len(questions))) = 2

C13_CreatedQuestionDefaults ==
    [][(last'.op = "create_question" /\ last'.res = "ok") =>
          /\ Len(questions') = Len(questions) + 1
          /\ \A q \in QIds : questions'[q] = questions[q]
          /\ \E r \in inserts \ inserts' :
                LET d == questions'[Len(questions')]
                IN /\ d.status = "PENDING"
                   /\ d.cluster_id = NoCluster
                   /\ d.difficulty_score = NoScore
                   /\ d.difficulty_level = None
                   /\ d.keywords = <<>>
                   /\ d.is_merged = FALSE
                   /\ d.merged_to_qa_id = None
                   /\ d.course_id = r.course_id
                   /\ d.pseudonym = generate_pseudonym(r.line_user_id)
                   /\ DOMAIN d \cap {"line_user_id", "user_id"} = {}
                   /\ r.line_user_id \notin
                         {d.pseudonym, d.question_text, d.course_id, d.created_at,
                          d.status, d.difficulty_level, d.merged_to_qa_id}]_vars

\* a question of user U1 has been inserted for an active course
C13_Witness ==
    /\ last.op = "create_question"
    /\ last.res = "ok"
    /\ Len(questions) = last.qid
    /\ courses[last.arg].is_active
    /\ questions[last.qid].pseudonym = generate_pseudonym("U1")

\* ------------------------------------------------------------------------
\* Claims about update_ai_analysis (checked under SpecAI)
\* ------------------------------------------------------------------------
AIFields(doc) ==
    <<doc.cluster_id, doc.difficulty_score, doc.difficulty_level, doc.keywords,
      doc.ai_response_draft, doc.ai_summary>>

\* C14: for every stored question and every payload, writing the payload a
\* second time right after the first leaves cluster_id, difficulty_score,
\* difficulty_level, keywords, draft and summary as the first write left them.
C14_AnalysisIdempotent ==
    \A q \in QIds, sc \in AIScores, kw \in AIKeywords :
        LET payload == AIAnalysisResult(1, sc, kw)
            once == ai_update_data(questions[q], payload)
            twice == ai_update_data(once, payload)
        IN AIFields(twice) = AIFields(once)

\* update_ai_analysis has written keywords and a score to a question, the
\* state a second write of the same payload starts from
C14_Witness ==
    /\ last.op = "update_ai_analysis"
    /\ last.res = "ok"
    /\ questions[last.qid].keywords = <<"kw">>
    /\ questions[last.qid].difficulty_score = 7
    /\ questions[last.qid].ai_response_draft = None

\* ------------------------------------------------------------------------
\* POST /questions/merge and QAService.link_questions
\* ------------------------------------------------------------------------
\* the $set of the merge with the pseudonym rewritten as well
merged_doc_relabelled(doc, qa_id) ==
    [doc EXCEPT !.merged_to_qa_id = qa_id, !.is_merged = TRUE, !.pseudonym = qa_id]

\* the document after the $set of update_many
merged_doc(doc, qa_id) ==
    [doc EXCEPT !.merged_to_qa_id = qa_id, !.is_merged = TRUE]

\* update_many({"_id": {"$in": object_ids}}, ...): one awaited call
merge_questions_to_qa(question_ids, qa_id) ==
    /\ questions' = [q \in QIds |->
                        IF q \in question_ids THEN merged_doc(questions[q], qa_id)
                        ELSE questions[q]]
    /\ last' = Step("merge_questions_to_qa", Cardinality(question_ids \cap QIds),
                    qa_id, "ok")
    /\ UNCHANGED <<courses, inserts, status_writes, course_deletes, reset_pc,
                   ai_tasks, drafts, cluster_side, line_side>>

\* ------------------------------------------------------------------------
\* SpecFrame: every writer of the questions collection on one question
\* ------------------------------------------------------------------------
NextFrame ==
    \/ create_question_check("c1", "U2", "t1", FALSE, MaxFrameQuestions)
    \/ \E r \in inserts : create_question_insert(r)
    \/ \E q \in 1..MaxFrameQuestions :
          update_question_status_check(q, "APPROVED", None)
    \/ \E w \in status_writes : update_question_status_write(w)
    \/ \E q \in 1..MaxFrameQuestions :
          update_ai_analysis(q, AIAnalysisResult(1, 3, <<"kw">>))
    \/ \E q \in 1..MaxFrameQuestions : generate_response_draft(q)
    \/ \E d \in drafts :
          generate_and_save_draft(d, [difficulty_score |-> 7, keywords |-> <<>>])
    \/ generate_course_clusters("c1", TopicCeiling)
    \/ \E r \in runs, m \in [Labels -> 0..next_oid] : run_load_clusters(r, m)
    \/ \E r \in runs :
          run_load_questions(r, [usable |-> TRUE, clusters |-> <<Group("loops", Ints(<<0>>))>>])
    \/ \E r \in runs : run_group_cluster(r)
    \/ \E r \in runs : run_group_assign(r)
    \/ delete_cluster_release(1)
    \/ \E d \in cluster_deletes : delete_cluster_delete(d)
    \/ \E q \in 1..MaxFrameQuestions : merge_questions_to_qa({q}, "qa1")
    \/ delete_course_begin("c1")
    \/ \E c \in course_deletes : delete_course_cascade(c)

SpecFrame == Init /\ [][NextFrame]_vars

\* C15: no step changes the pseudonym of a stored question, and no step
\* removes a question.
C15_PseudonymImmutable ==
    [][/\ Len(questions') >= Len(questions)
       /\ \A q \in QIds : questions'[q].pseudonym = questions[q].pseudonym]_vars

\* a question of user U2 has been through an AI write, a reconciliation
\* run and a merge, was then deleted, and still carries the hash of U2
C15_Witness ==
    /\ Len(questions) = 1
    /\ questions[1].pseudonym = generate_pseudonym("U2")
    /\ questions[1].status = "DELETED"
    /\ questions[1].is_merged
    /\ questions[1].cluster_id # NoCluster
    /\ questions[1].difficulty_score # NoScore

\* ------------------------------------------------------------------------
\* SpecManual: manual cluster creation and PATCH /clusters/{cluster_id}
\* ------------------------------------------------------------------------
NextManual ==
    \/ \E l \in {"loops", "syntax"} : create_manual_cluster_check("c1", l)
    \/ \E m \in manual_creates : create_manual_cluster_insert(m)
    \/ \E c \in 1..MaxOids, l \in {None, "loops", "syntax"},
          k \in {None, "true", "false"} : update_cluster(c, l, k)

SpecManual == Init /\ [][NextManual]_vars

\* ------------------------------------------------------------------------
\* Claims about cluster labels and locks
\* ------------------------------------------------------------------------
\* C16: no two clusters of one course carry the same topic_label (checked
\* under SpecCluster).
C16_LabelsUnique ==
    \A c, d \in DOMAIN clusters :
        (c # d /\ clusters[c].course_id = clusters[d].course_id)
            => clusters[c].topic_label # clusters[d].topic_label

\* the part of C17 about manual creation: the inserted cluster is locked,
\* empty and carries its label as manual_label; a creation whose label is in
\* the course when it looks inserts nothing
ManualCreationLocked ==
    /\ (last'.op = "create_manual_cluster" /\ last'.res = "ok") =>
          /\ DOMAIN clusters' = DOMAIN clusters \cup {last'.qid}
          /\ last'.qid \notin DOMAIN clusters
          /\ clusters'[last'.qid].is_locked = TRUE
          /\ clusters'[last'.qid].question_count = 0
          /\ clusters'[last'.qid].topic_label = last'.arg
          /\ clusters'[last'.qid].manual_label = last'.arg
    /\ (/\ last'.op = "create_manual_cluster"
        /\ last'.res \in {"checked", "LabelExists"}
        /\ \E c \in course_clusters("c1") : clusters[c].topic_label = last'.arg)
       => /\ last'.res = "LabelExists"
          /\ clusters' = clusters
          /\ manual_creates' = manual_creates

\* an update_cluster step that found its cluster and carried a label
RenameStep ==
    /\ last'.op = "update_cluster"
    /\ last'.res # "NotFound"
    /\ last'.arg # None

ApiKeys == {"", "gsk"}

\* what the HTTP exchange of _call_ai_api can come to: requests.post times
\* out, raise_for_status raises, the body is not the chat-completion envelope,
\* the content is not JSON, the content is empty ("" or {}), or it is content
ResponseKinds == {"timeout", "http_error", "bad_envelope", "malformed", "empty", "ok"}

AIResponse(kind, content) == [kind |-> kind, content |-> content]

\* AIService._call_ai_api: ValueError before the try block when the key is
\* missing; None for a timeout and for every other exception; {} when
\* json.loads fails; else the parsed object or the stripped text
call_ai_api(api_key, response, json_mode) ==
    IF api_key = "" THEN [tag |-> "ValueError", value |-> None]
    ELSE IF response.kind \in {"timeout", "http_error", "bad_envelope"}
    THEN [tag |-> "None", value |-> None]
    ELSE IF response.kind = "empty" THEN [tag |-> "empty", value |-> None]
    ELSE IF response.kind = "malformed" /\ json_mode THEN [tag |-> "empty", value |-> None]
    ELSE [tag |-> "value", value |-> response.content]

Raised(exception) == [raised |-> TRUE, value |-> exception]
Returned(value) == [raised |-> FALSE, value |-> value]

\* "result if result else default" and "if not result: return default"
result_or(r, default) ==
    IF r.tag = "ValueError" THEN Raised("ValueError")
    ELSE IF r.tag \in {"None", "empty"} THEN Returned(default)
    ELSE Returned(r.value)

AnalysisDefaults ==
    [keywords |-> <<>>, difficulty_score |-> 0, sentiment |-> "neutral",
     summary |-> "analysis_failed"]

AnalysisContents ==
    {[keywords |-> kw, difficulty_score |-> sc, sentiment |-> "neutral",
      summary |-> "s"] : kw \in AIKeywords, sc \in AIScores}

DraftSentinel == "draft_failed"
ReplySentinel == "busy"
DraftContents == {"draft1", "draft2"}

LabelDefault == [topic_label |-> "unnamed", summary |-> ""]
LabelContents == {[topic_label |-> l, summary |-> "s"] : l \in Labels}

NoClusters == [usable |-> TRUE, clusters |-> <<>>]

gateway_step(op, n, response, result) ==
    /\ last' = Step(op, n, response.kind, result)
    /\ UNCHANGED <<courses, questions, inserts, status_writes, course_deletes,
                   reset_pc, ai_tasks, drafts, cluster_side, line_side>>

AIService_get_reply(response) ==
    gateway_step("get_reply", 0, response,
                 result_or(call_ai_api(settings.AI_API_KEY, response, FALSE),
                           ReplySentinel))

AIService_analyze_question(response) ==
    gateway_step("analyze_question", 0, response,
                 result_or(call_ai_api(settings.AI_API_KEY, response, TRUE),
                           AnalysisDefaults))

AIService_generate_response_draft(response) ==
    gateway_step("generate_response_draft", 0, response,
                 result_or(call_ai_api(settings.AI_API_KEY, response, FALSE),
                           DraftSentinel))

AIService_generate_cluster_label(n, response) ==
    gateway_step("generate_cluster_label", n, response,
                 result_or(call_ai_api(settings.AI_API_KEY, response, TRUE),
                           LabelDefault))

\* an empty question list is answered before the call is made
AIService_perform_advanced_clustering(n, response) ==
    gateway_step("perform_advanced_clustering", n, response,
                 IF n = 0 THEN Returned(NoClusters)
                 ELSE result_or(call_ai_api(settings.AI_API_KEY, response, TRUE),
                                NoClusters))

MaxGatewayQuestions == 3

TextResponses ==
    {AIResponse(k, "") : k \in ResponseKinds \ {"ok", "malformed"}}
        \cup {AIResponse("ok", d) : d \in DraftContents}

AnalysisResponses ==
    {AIResponse(k, AnalysisDefaults) : k \in ResponseKinds \ {"ok"}}
        \cup {AIResponse("ok", a) : a \in AnalysisContents}

LabelResponses ==
    {AIResponse(k, LabelDefault) : k \in ResponseKinds \ {"ok"}}
        \cup {AIResponse("ok", l) : l \in LabelContents}

ClusteringGatewayResponses ==
    {AIResponse(k, NoClusters) : k \in ResponseKinds \ {"ok"}}
        \cup {AIResponse("ok", c) : c \in ClusteringResponses}

InitGateway ==
    /\ InitStore
    /\ settings \in [LINE_CHANNEL_SECRET : {""}, LINE_CHANNEL_ACCESS_TOKEN : {""},
                      AI_API_KEY : ApiKeys]

NextGateway ==
    \/ \E r \in TextResponses : AIService_get_reply(r)
    \/ \E r \in AnalysisResponses : AIService_analyze_question(r)
    \/ \E r \in TextResponses : AIService_generate_response_draft(r)
    \/ \E n \in 1..MaxGatewayQuestions, r \in LabelResponses :
          AIService_generate_cluster_label(n, r)
    \/ \E n \in 0..MaxGatewayQuestions, r \in ClusteringGatewayResponses :
          AIService_perform_advanced_clustering(n, r)

SpecGateway == InitGateway /\ [][NextGateway]_vars

\* ------------------------------------------------------------------------
\* Claims about the AI gateway (checked under SpecGateway)
\* ------------------------------------------------------------------------
GatewayOps ==
    {"analyze_question", "generate_response_draft", "generate_cluster_label",
     "perform_advanced_clustering"}

GatewayFailures == {"timeout", "http_error", "bad_envelope", "malformed"}

GatewayDefault(op) ==
    CASE op = "analyze_question" -> AnalysisDefaults
      [] op = "generate_response_draft" -> DraftSentinel
      [] op = "generate_cluster_label" -> LabelDefault
      [] op = "perform_advanced_clustering" -> NoClusters

\* C18: no gateway operation lets an exception reach its caller, and after a
\* timeout, an HTTP error or malformed JSON each one returns its default: the
\* analysis defaults, the draft sentinel, the default label, the empty
\* cluster list.
C18_GatewayNeverRaises ==
    last.op \in GatewayOps =>
        /\ ~last.res.raised
        /\ last.arg \in GatewayFailures => last.res.value = GatewayDefault(last.op)

\* the failures are turned into the defaults whenever a key is configured
GatewayFailureDefaults ==
    (last.op \in GatewayOps /\ settings.AI_API_KEY # "") =>
        /\ ~last.res.raised
        /\ last.arg \in GatewayFailures => last.res.value = GatewayDefault(last.op)

\* ------------------------------------------------------------------------
\* Claims about a run that has nothing to do (checked under SpecCluster)
\* ------------------------------------------------------------------------
\* the run r takes steps 2 and 3 in this step
LoadQuestionsStep(r) ==
    /\ r \in runs
    /\ r.pc = "load_questions"
    /\ r \notin runs'
    /\ last'.op = "_run_clustering_task"
    /\ last'.res \in {"no_questions", "bad_format", "batch_loaded"}

\* the run r is over after this step and nothing stored has changed; r had
\* written nothing before
EndsQuietly(r) ==
    /\ runs' = runs \ {r}
    /\ clusters' = clusters
    /\ questions' = questions
    /\ next_oid' = next_oid
    /\ r.created = 0
    /\ r.target = NoTarget

\* C19: a run that finds no unclustered pending question, or whose AI call
\* fails or yields no cluster list, or yields an empty list, is over after
\* that step: no cluster is created, no question_count and no cluster_id
\* changes. A run goes on only with a batch and a group to handle.
C19_QuietAbort ==
    [][\A r \in runs : LoadQuestionsStep(r) =>
          /\ get_pending_questions_for_ai(r.course_id, ClusteringLimit) = <<>>
                => (EndsQuietly(r) /\ last'.res = "no_questions")
          /\ last'.res \in {"no_questions", "bad_format"} => EndsQuietly(r)
          /\ runs' # runs \ {r} =>
                \E r2 \in runs' \ runs :
                    /\ r2.rid = r.rid
                    /\ r2.questions # <<>>
                    /\ r2.clusters_data # <<>>
                    /\ clusters' = clusters
                    /\ questions' = questions
          /\ (runs' = runs \ {r}) => EndsQuietly(r)]_vars

\* a run with a pending question in its batch got an empty list of groups
\* and is over
C19_Witness ==
    /\ last.op = "_run_clustering_task"
    /\ last.res = "batch_loaded"
    /\ last.qid > 0
    /\ runs = {}
    /\ clusters = [c \in {} |-> None]

\* ------------------------------------------------------------------------
\* SpecIndices: runs over index lists with bad entries
\* ------------------------------------------------------------------------
MaxIndexQuestions == 3

IndexResponses ==
    {[usable |-> TRUE, clusters |->
        <<Group("loops", <<JsonInt(0), JsonInt(2), JsonString(1)>>),
          Group("syntax", <<JsonInt(1), JsonInt(0 - 1)>>)>>],
     [usable |-> TRUE, clusters |->
        <<Group("loops", <<JsonString(0), JsonInt(5)>>),
          Group("syntax", <<JsonInt(0)>>)>>],
     [usable |-> TRUE, clusters |->
        <<Group("loops", <<JsonInt(0)>>),
          Group("syntax", <<JsonBool(TRUE)>>)>>]}

NextIndices ==
    \/ create_question_check("c1", "U1", "t1", FALSE, MaxIndexQuestions)
    \/ \E r \in inserts : create_question_insert(r)
    \/ generate_course_clusters("c1", TopicCeiling)
    \/ \E r \in runs, m \in [Labels -> 0..next_oid] : run_load_clusters(r, m)
    \/ \E r \in runs, a \in IndexResponses : run_load_questions(r, a)
    \/ \E r \in runs : run_group_cluster(r)
    \/ \E r \in runs : run_group_assign(r)

SpecIndices == Init /\ [][NextIndices]_vars

\* ------------------------------------------------------------------------
\* Claims about the index mapping (checked under SpecIndices)
\* ------------------------------------------------------------------------
\* ids of the batch questions at the entries of the group r handles that are
\* of one of the given types and lie in [0, batch size)
QuestionsAt(r, types) ==
    LET indices == r.clusters_data[r.i].question_indices
    IN {r.questions[indices[k].value + 1]._id :
          k \in {j \in 1..Len(indices) :
                    /\ indices[j].type \in types
                    /\ 0 <= indices[j].value
                    /\ indices[j].value < Len(r.questions)}}

\* the first await of a group: with usable entries the run goes on to assign
\* them, without any it goes to the next group or ends; no question changes
GroupClusterStep(r, types) ==
    (/\ r \in runs
     /\ r.pc = "cluster"
     /\ r \notin runs'
     /\ last'.op = "_run_clustering_task"
     /\ last'.res \in {"inc", "insert"})
    => /\ questions' = questions
       /\ QuestionsAt(r, types) # {} =>
             \E r2 \in runs' : r2.rid = r.rid /\ r2.pc = "assign" /\ r2.i = r.i
       /\ QuestionsAt(r, types) = {} =>
             \/ runs' = runs \ {r}
             \/ \E r2 \in runs' : /\ r2.rid = r.rid
                                  /\ r2.pc = "cluster"
                                  /\ r2.i = next_group(r.clusters_data, r.i)

\* the second await of a group: the questions at the usable entries get the
\* group's cluster id, every other question is left as it was
GroupAssignStep(r, types) ==
    (/\ r \in runs
     /\ r.pc = "assign"
     /\ r \notin runs'
     /\ last'.op = "_run_clustering_task"
     /\ last'.res = "assign")
    => /\ Len(questions') = Len(questions)
       /\ \A q \in QIds :
             IF q \in QuestionsAt(r, types)
             THEN questions'[q] = [questions[q] EXCEPT !.cluster_id = r.target]
             ELSE questions'[q] = questions[q]

\* C20: of a group's entries only the integers in [0, batch size) are used:
\* the batch questions at those entries get the group's resolved cluster id,
\* an out-of-range or non-integer entry updates no question, and a bad entry
\* keeps neither the other entries of its group nor the later groups from
\* being assigned.
C20_OnlyIntegerIndicesUsed ==
    [][\A r \in runs : GroupClusterStep(r, {"int"}) /\ GroupAssignStep(r, {"int"})]_vars

\* the same with the entries that isinstance(idx, int) lets through
IndicesUsedAsPython ==
    [][\A r \in runs :
          GroupClusterStep(r, {"int", "bool"}) /\ GroupAssignStep(r, {"int", "bool"})]_vars

\* ------------------------------------------------------------------------
\* SpecRace: two reconciliation runs of one course in flight
\* ------------------------------------------------------------------------
MaxRaceQuestions == 1
MaxConcurrentRuns == 2

RaceResponses ==
    {[usable |-> TRUE, clusters |-> <<Group("loops", Ints(<<0>>))>>],
     [usable |-> FALSE, clusters |-> <<>>]}

NextRace ==
    \/ create_question_check("c1", "U1", "t1", FALSE, MaxRaceQuestions)
    \/ \E r \in inserts : create_question_insert(r)
    \/ add_clustering_task("c1", TopicCeiling, MaxConcurrentRuns)
    \/ \E r \in runs, m \in [Labels -> 0..next_oid] : run_load_clusters(r, m)
    \/ \E r \in runs, a \in RaceResponses : run_load_questions(r, a)
    \/ \E r \in runs : run_group_cluster(r)
    \/ \E r \in runs : run_group_assign(r)

SpecRace == Init /\ [][NextRace]_vars

\* questions that reference the cluster c
members(c) == {q \in QIds : questions[q].cluster_id = c}

\* ------------------------------------------------------------------------
\* Claims about concurrent runs (checked under SpecRace)
\* ------------------------------------------------------------------------
\* C21: nothing keeps two runs of a course from being in flight, and a run
\* adds the size of a group to question_count whatever cluster the batch
\* questions have by then: the increment for a question another run has
\* already counted is not suppressed.
C21_IncrementNotSuppressed ==
    [][\A r \in runs :
          (/\ r.pc = "cluster"
           /\ r \notin runs'
           /\ last'.op = "_run_clustering_task"
           /\ last'.res \in {"inc", "insert"})
          => LET indices == r.clusters_data[r.i].question_indices
                 target == IF last'.res = "inc"
                           THEN r.existing_topic_map[r.clusters_data[r.i].topic_label]
                           ELSE next_oid'
             IN /\ last'.res = "inc" =>
                      /\ target \in DOMAIN clusters
                      /\ clusters'[target].question_count =
                            clusters[target].question_count + Len(indices)
                /\ last'.res = "insert" =>
                      /\ target \notin DOMAIN clusters
                      /\ clusters'[target].question_count = Len(indices)]_vars

\* two runs loaded the one question of the course; the cluster it belongs
\* to counts it twice
C21_Witness ==
    /\ Len(questions) = 1
    /\ runs = {}
    /\ \E c \in DOMAIN clusters :
          /\ members(c) = {1}
          /\ clusters[c].question_count = 2

\* ------------------------------------------------------------------------
\* SpecSerial: runs of one course one after another, every answer a
\* partition of the batch
\* ------------------------------------------------------------------------
MaxSerialQuestions == 2

\* answers that name every index of a batch of n questions exactly once
PartitionResponses(n) ==
    IF n = 0 THEN {NoClusters}
    ELSE IF n = 1
    THEN {[usable |-> TRUE, clusters |-> <<Group("loops", Ints(<<0>>))>>],
          [usable |-> TRUE, clusters |-> <<Group("syntax", Ints(<<0>>))>>]}
    ELSE {[usable |-> TRUE, clusters |->
             <<Group("loops", Ints([i \in 1..n |-> i - 1]))>>],
          [usable |-> TRUE, clusters |->
             <<Group("loops", Ints(<<n - 1>>)),
               Group("syntax", Ints([i \in 1..(n - 1) |-> i - 1]))>>],
          [usable |-> TRUE, clusters |->
             [i \in 1..n |-> Group("syntax", Ints(<<i - 1>>))]]}

\* the caller starts a run of the course only when none is in flight
NextSerial ==
    \/ create_question_check("c1", "U1", "t1", FALSE, MaxSerialQuestions)
    \/ \E r \in inserts : create_question_insert(r)
    \/ \E q \in QIds : update_question_status_check(q, "APPROVED", None)
    \/ \E w \in status_writes : update_question_status_write(w)
    \/ (runs = {} /\ generate_course_clusters("c1", TopicCeiling))
    \/ \E r \in runs, m \in [Labels -> 0..next_oid] : run_load_clusters(r, m)
    \/ \E r \in runs :
          \E a \in PartitionResponses(
                     Len(get_pending_questions_for_ai(r.course_id, ClusteringLimit))) :
             run_load_questions(r, a)
    \/ \E r \in runs : run_group_cluster(r)
    \/ \E r \in runs : run_group_assign(r)

SpecSerial == Init /\ [][NextSerial]_vars

\* ------------------------------------------------------------------------
\* Claims about serialized runs (checked under SpecSerial)
\* ------------------------------------------------------------------------
\* C22: with the runs of a course one after another, no other writer of
\* cluster_id and answers that name every index of the batch once, the batch
\* a run loads holds no question that has a cluster, and between runs every
\* cluster's question_count is the number of questions that reference it:
\* each assigned question was counted once.
C22_SerialRunsCountOnce ==
    [][/\ runs' = {} =>
             \A c \in DOMAIN clusters' :
                clusters'[c].question_count =
                   Cardinality({q \in 1..Len(questions') : questions'[q].cluster_id = c})
       /\ (last'.op = "_run_clustering_task" /\ last'.res = "batch_loaded") =>
             \A r \in runs' : \A k \in DOMAIN r.questions :
                questions[r.questions[k]._id].cluster_id = NoCluster]_vars

\* a later run is at work on a batch that holds the second question only:
\* the first, still PENDING, was assigned and counted by an earlier run
C22_Witness ==
    /\ Len(questions) = 2
    /\ questions[1].status = "PENDING"
    /\ questions[1].cluster_id # NoCluster
    /\ clusters[questions[1].cluster_id].question_count = 1
    /\ \E r \in runs :
          /\ r.pc = "assign"
          /\ Len(r.questions) = 1
          /\ r.questions[1]._id = 2
          /\ r.target = questions[1].cluster_id + 1

\* ------------------------------------------------------------------------
\* Claims about cluster references (checked under SpecDelete)
\* ------------------------------------------------------------------------
\* C23: every cluster_id stored on a question is the id of a stored cluster.
C23_NoDanglingReference ==
    \A q \in QIds :
        questions[q].cluster_id # NoCluster => questions[q].cluster_id \in DOMAIN clusters

\* ------------------------------------------------------------------------
\* Claims about the questions a run assigns (checked under SpecSerial)
\* ------------------------------------------------------------------------
\* C24: when a run writes a cluster_id to a question, the question is
\* PENDING and has no cluster_id.
C24_AssignsOnlyUnclusteredPending ==
    [][\A r \in runs :
          (/\ r.pc = "assign"
           /\ r \notin runs'
           /\ last'.op = "_run_clustering_task"
           /\ last'.res = "assign")
          => \A q \in target_q_ids(r, r.clusters_data[r.i].question_indices) :
                /\ questions[q].status = "PENDING"
                /\ questions[q].cluster_id = NoCluster]_vars

\* ------------------------------------------------------------------------
\* Claims about what a run does to clusters (checked under SpecCluster)
\* ------------------------------------------------------------------------
\* C25: a step of a run leaves topic_label, manual_label, summary and
\* is_locked (and the course) of every stored cluster as they were and
\* removes none; only question_count may differ. A cluster the step inserts
\* is unlocked and has no manual label.
C25_RunNeverRelabels ==
    [][last'.op = "_run_clustering_task" =>
          /\ \A c \in DOMAIN clusters :
                /\ c \in DOMAIN clusters'
                /\ clusters'[c] = [clusters[c] EXCEPT
                                      !.question_count = clusters'[c].question_count]
          /\ \A c \in DOMAIN clusters' \ DOMAIN clusters :
                /\ clusters'[c].is_locked = FALSE
                /\ clusters'[c].manual_label = None]_vars

\* a run has added a group to a locked, manually labelled cluster, and it
\* has inserted a cluster of its own
C25_Witness ==
    /\ last.op = "_run_clustering_task"
    /\ last.res = "assign"
    /\ \E c \in DOMAIN clusters :
          /\ clusters[c].is_locked
          /\ clusters[c].manual_label = clusters[c].topic_label
          /\ clusters[c].question_count > 0
    /\ \E c \in DOMAIN clusters :
          /\ ~clusters[c].is_locked
          /\ clusters[c].question_count > 0

\* ------------------------------------------------------------------------
\* SpecIsolation: runs of either course next to the other course's data
\* ------------------------------------------------------------------------
MaxIsolationQuestions == 2
MaxCounted == 2            \* no new run once a cluster counts this many

\* an exception at one of the task's awaits: the except clause logs it and
\* the task is over; nothing is undone
run_abort(r) ==
    /\ r \in runs
    /\ runs' = runs \ {r}
    /\ last' = Step("_run_clustering_task", 0, None, "failed")
    /\ UNCHANGED <<courses, questions, inserts, status_writes, course_deletes,
                   reset_pc, ai_tasks, drafts, clusters, next_oid, cluster_deletes,
                   manual_creates, line_side>>

IsolationResponses ==
    {[usable |-> TRUE, clusters |-> <<Group("loops", Ints(<<0>>))>>],
     [usable |-> TRUE, clusters |->
        <<Group("syntax", Ints(<<0>>)), Group("loops", Ints(<<1>>))>>]}

NextIsolation ==
    \/ \E c \in CourseIds :
          create_question_check(c, "U1", "t1", FALSE, MaxIsolationQuestions)
    \/ \E r \in inserts : create_question_insert(r)
    \/ create_manual_cluster_check("c2", "loops")
    \/ \E m \in manual_creates : create_manual_cluster_insert(m)
    \/ \E c \in CourseIds :
          /\ \A k \in DOMAIN clusters : clusters[k].question_count < MaxCounted
          /\ generate_course_clusters(c, TopicCeiling)
    \/ \E r \in runs, m \in [Labels -> 0..next_oid] : run_load_clusters(r, m)
    \/ \E r \in runs, a \in IsolationResponses : run_load_questions(r, a)
    \/ \E r \in runs : run_group_cluster(r)
    \/ \E r \in runs : run_group_assign(r)
    \/ \E r \in runs : run_abort(r)

SpecIsolation == Init /\ [][NextIsolation]_vars

\* ------------------------------------------------------------------------
\* Claims about the reach of a run (checked under SpecIsolation)
\* ------------------------------------------------------------------------
\* C26: a step of a run for course C inserts or changes only clusters of C
\* and changes only the cluster_id of questions of C; clusters and questions
\* of other courses stay as they are, and the step in which a run fails
\* changes nothing, so what the run wrote before stays.
C26_RunIsolatedToCourse ==
    [][\A r \in runs :
          (r \notin runs' /\ last'.op = "_run_clustering_task") =>
             /\ \A c \in DOMAIN clusters :
                   /\ c \in DOMAIN clusters'
                   /\ clusters[c].course_id # r.course_id => clusters'[c] = clusters[c]
             /\ \A c \in DOMAIN clusters' \ DOMAIN clusters :
                   clusters'[c].course_id = r.course_id
             /\ Len(questions') = Len(questions)
             /\ \A q \in QIds :
                   /\ questions[q].course_id # r.course_id => questions'[q] = questions[q]
                   /\ questions'[q] = [questions[q] EXCEPT
                                          !.cluster_id = questions'[q].cluster_id]
             /\ last'.res = "failed" => (clusters' = clusters /\ questions' = questions)]_vars

\* a run of c1 failed after it had inserted its cluster and before it
\* assigned the question; c2 holds the manually created cluster and a question
C26_Witness ==
    /\ last.op = "_run_clustering_task"
    /\ last.res = "failed"
    /\ runs = {}
    /\ \E c \in DOMAIN clusters :
          /\ clusters[c].course_id = "c1"
          /\ clusters[c].question_count = 1
          /\ members(c) = {}
    /\ \E q \in QIds : questions[q].course_id = "c1" /\ questions[q].cluster_id = NoCluster
    /\ \E c \in DOMAIN clusters :
          /\ clusters[c].course_id = "c2"
          /\ clusters[c].topic_label = "loops"
          /\ clusters[c].question_count = 0
    /\ \E q \in QIds : questions[q].course_id = "c2"

\* ------------------------------------------------------------------------
\* Claims about counts after runs with arbitrary answers (checked under
\* SpecIndices)
\* ------------------------------------------------------------------------
\* C27: between runs every cluster's question_count is the number of
\* questions whose cluster_id is that cluster.
C27_CountMatchesMembers ==
    runs = {} =>
        \A c \in DOMAIN clusters : clusters[c].question_count = Cardinality(members(c))

\* ------------------------------------------------------------------------
\* Claims about the draft task (checked under SpecFrame)
\* ------------------------------------------------------------------------
\* C28: when the draft task writes, the cluster_id it stores is the one the
\* question had immediately before the write.
C28_DraftKeepsCurrentCluster ==
    [][(last'.op = "_generate_and_save_draft" /\ last'.res = "ok") =>
          questions'[last'.qid].cluster_id = questions[last'.qid].cluster_id]_vars

\* ------------------------------------------------------------------------
\* Claims about questions of deleted courses (checked under Spec)
\* ------------------------------------------------------------------------
\* C29: while no delete_course is between its two writes, every question
\* whose status is not DELETED belongs to an active course.
C29_NoLiveQuestionInInactiveCourse ==
    course_deletes = {} =>
        \A q \in QIds :
            questions[q].status # "DELETED" =>
                /\ questions[q].course_id \in DOMAIN courses
                /\ courses[questions[q].course_id].is_active

\* ------------------------------------------------------------------------
\* services/line_service.py: LineService
\* ------------------------------------------------------------------------
MaxChatMessages == 3
MaxChatHandlers == 2
MaxChatQuestions == 2

ChatTexts == {"bind c1", "bind c2", "bind cX", "unbind", "q1"}

\* message_text.startswith("bind "), message_text == "unbind", else a question
chat_command(text) ==
    CASE text = "bind c1" -> [kind |-> "bind", course_code |-> "c1"]
      [] text = "bind c2" -> [kind |-> "bind", course_code |-> "c2"]
      [] text = "bind cX" -> [kind |-> "bind", course_code |-> UnknownCourse]
      [] text = "unbind" -> [kind |-> "unbind", course_code |-> None]
      [] OTHER -> [kind |-> "question", course_code |-> None]

\* the handler after the insert_one into line_messages, at its next await
chat_handler(msg, user_id, text) ==
    [msg |-> msg, user_id |-> user_id, text |-> text, course_id |-> None,
     pc |-> IF chat_command(text).kind = "bind" THEN "bind_find"
            ELSE IF chat_command(text).kind = "unbind" THEN "unbind"
            ELSE "question_find"]

chat_unchanged ==
    UNCHANGED <<courses, questions, status_writes, course_deletes, reset_pc,
                ai_tasks, drafts, cluster_side, settings, webhook_request>>

\* handle_text_message up to its first await: the received message is logged
LineService_handle_text_message(user_id, text) ==
    /\ Len(line_messages) < MaxChatMessages
    /\ Cardinality(line_handlers) < MaxChatHandlers
    /\ line_messages' = Append(line_messages, line_message(user_id, "received", text))
    /\ line_handlers' = line_handlers \cup
          {chat_handler(Len(line_messages) + 1, user_id, text)}
    /\ last' = Step("handle_text_message", Len(line_messages) + 1, text, "logged")
    /\ UNCHANGED <<inserts, line_users>>
    /\ chat_unchanged

\* _handle_bind_course, find_one on courses by id or by name
LineService_handle_bind_course_find(h) ==
    /\ h \in line_handlers
    /\ h.pc = "bind_find"
    /\ LET course_code == chat_command(h.text).course_code
       IN IF course_code \in DOMAIN courses
          THEN /\ line_handlers' = (line_handlers \ {h}) \cup
                     {[h EXCEPT !.pc = "bind_update", !.course_id = course_code]}
               /\ last' = Step("_handle_bind_course", h.msg, course_code, "found")
          ELSE /\ line_handlers' = line_handlers \ {h}
               /\ last' = Step("_handle_bind_course", h.msg, course_code, "NotFound")
    /\ UNCHANGED <<inserts, line_users, line_messages>>
    /\ chat_unchanged

\* _handle_bind_course, update_one with upsert
LineService_handle_bind_course_update(h) ==
    /\ h \in line_handlers
    /\ h.pc = "bind_update"
    /\ line_users' = [line_users EXCEPT ![h.user_id] = h.course_id]
    /\ line_handlers' = line_handlers \ {h}
    /\ last' = Step("_handle_bind_course", h.msg, h.course_id, "bound")
    /\ UNCHANGED <<inserts, line_messages>>
    /\ chat_unchanged

\* _handle_unbind_course: update_one without upsert
LineService_handle_unbind_course(h) ==
    /\ h \in line_handlers
    /\ h.pc = "unbind"
    /\ line_users' = [line_users EXCEPT ![h.user_id] =
                         IF @ = NoDocument THEN NoDocument ELSE None]
    /\ line_handlers' = line_handlers \ {h}
    /\ last' = Step("_handle_unbind_course", h.msg, None, "unbound")
    /\ UNCHANGED <<inserts, line_messages>>
    /\ chat_unchanged

\* _handle_question, find_one on line_users
LineService_handle_question_find(h) ==
    /\ h \in line_handlers
    /\ h.pc = "question_find"
    /\ IF line_users[h.user_id] \in {NoDocument, None}
       THEN /\ line_handlers' = line_handlers \ {h}
            /\ last' = Step("_handle_question", h.msg, None, "NotBound")
       ELSE /\ line_handlers' = (line_handlers \ {h}) \cup
                  {[h EXCEPT !.pc = "create", !.course_id = line_users[h.user_id]]}
            /\ last' = Step("_handle_question", h.msg, line_users[h.user_id], "bound")
    /\ UNCHANGED <<inserts, line_users, line_messages>>
    /\ chat_unchanged

\* _handle_question, create_question up to its insert_one: the course lookup
\* and the validations; the insert is create_question_insert
LineService_handle_question_create(h) ==
    /\ h \in line_handlers
    /\ h.pc = "create"
    /\ Len(questions) + Cardinality(inserts) < MaxChatQuestions
    /\ line_handlers' = line_handlers \ {h}
    /\ IF h.course_id \notin DOMAIN courses \/ ~courses[h.course_id].is_active
       THEN /\ last' = Step("create_question", 0, h.course_id, "InvalidCourse")
            /\ UNCHANGED inserts
       ELSE /\ inserts' = inserts \cup
                 {[course_id |-> h.course_id, line_user_id |-> h.user_id,
                   question_text |-> h.text, background |-> TRUE, msg |-> h.msg]}
            /\ last' = Step("create_question", 0, h.course_id, "validated")
    /\ UNCHANGED <<line_users, line_messages>>
    /\ chat_unchanged

NextChat ==
    \/ \E t \in ChatTexts : LineService_handle_text_message("U1", t)
    \/ \E h \in line_handlers : LineService_handle_bind_course_find(h)
    \/ \E h \in line_handlers : LineService_handle_bind_course_update(h)
    \/ \E h \in line_handlers : LineService_handle_unbind_course(h)
    \/ \E h \in line_handlers : LineService_handle_question_find(h)
    \/ \E h \in line_handlers : LineService_handle_question_create(h)
    \/ \E r \in inserts : create_question_insert(r)

SpecChat == Init /\ [][NextChat]_vars

\* ------------------------------------------------------------------------
\* Claims about the chat handler (checked under SpecChat)
\* ------------------------------------------------------------------------
RECURSIVE binding_after(_, _)
\* the binding of a user after the first k logged messages, each taken in
\* the order received: a bind of a stored course sets it, unbind clears it
binding_after(user_id, k) ==
    IF k = 0 THEN None
    ELSE LET m == line_messages[k]
             c == chat_command(m.content)
             before == binding_after(user_id, k - 1)
         IN IF m.user_id # user_id THEN before
            ELSE IF c.kind = "bind" /\ c.course_code \in DOMAIN courses
            THEN c.course_code
            ELSE IF c.kind = "unbind" THEN None
            ELSE before

\* C30: a handler acts on a message only after the message is in the log;
\* a question is stored only for a message whose sender, by the commands
\* received before it, has a binding (a successful bind not followed by an
\* unbind), and it belongs to the course of the most recent successful bind.
C30_QuestionOnlyWhileBound ==
    [][/\ \A h \in line_handlers' :
             /\ h.msg \in 1..Len(line_messages')
             /\ line_messages'[h.msg].content = h.text
             /\ line_messages'[h.msg].user_id = h.user_id
       /\ (last'.op = "create_question" /\ last'.res = "ok") =>
             \A r \in inserts \ inserts' :
                /\ binding_after(r.line_user_id, r.msg - 1) # None
                /\ binding_after(r.line_user_id, r.msg - 1) = r.course_id
                /\ questions'[last'.qid].course_id = r.course_id]_vars

\* the same with the binding taken as stored when the handler reads it
QuestionFollowsStoredBinding ==
    [][/\ \A h \in line_handlers' :
             /\ h.msg \in 1..Len(line_messages')
             /\ line_messages'[h.msg].content = h.text
       /\ (last'.op = "_handle_question" /\ last'.res = "NotBound") =>
             (inserts' = inserts /\ questions' = questions)
       /\ \A h \in line_handlers' \ line_handlers :
             h.pc = "create" => (h.course_id = line_users[h.user_id]
                                 /\ h.course_id \in DOMAIN courses)
       /\ \A r \in inserts' \ inserts :
             \E h \in line_handlers \ line_handlers' :
                h.pc = "create" /\ r.course_id = h.course_id /\ r.msg = h.msg]_vars

====
